---- MODULE Spec2Model ----
(***************************************************************************)
(* Model of the user slice of recipe-api: UserSerializer and               *)
(* AuthTokenSerializer (app/user/serializers.py) behind the create-user,   *)
(* token and profile endpoints exercised by app/user/tests.                *)
(*                                                                         *)
(* Text values (email, password, name) are sequences of one-character      *)
(* strings so that whitespace trimming and length validation are computed. *)
(***************************************************************************)
EXTENDS Integers, Sequences, FiniteSets, TLC

VARIABLES users, req, res, validated_data, storage_call

vars == <<users, req, res, validated_data, storage_call>>

-----------------------------------------------------------------------------
(* Program constants *)

min_length == 6

HTTP_200_OK == 200
HTTP_201_CREATED == 201
HTTP_400_BAD_REQUEST == 400
HTTP_401_UNAUTHORIZED == 401
HTTP_405_METHOD_NOT_ALLOWED == 405

(* Bounds of the model *)

MaxPad == 1

-----------------------------------------------------------------------------
(* Text helpers and input domains *)

Rep(c, n) == [i \in 1..n |-> c]

Blanks == Rep(" ", MaxPad)

Emails == {<<"a">>, <<"b">>}
RawEmails == Emails \cup {<<"a">> \o Blanks}
PatchEmails == {<<"b">>}

(* Passwords at the minimum length and one below it, with and without
   surrounding blanks *)
Short == Rep("p", min_length - 1)
Cores == {Short, Rep("p", min_length), Rep("q", min_length)}
RawPasswords ==
    Cores \cup {Short \o Blanks, Rep("p", min_length) \o Blanks,
                Blanks \o Rep("p", min_length)}

RawNames == {<<"n">>, <<"m">> \o Blanks}

None == 0
EmptyDict == [f \in {} |-> <<>>]

RECURSIVE lstrip(_)
lstrip(s) == IF s # <<>> /\ Head(s) = " " THEN lstrip(Tail(s)) ELSE s

RECURSIVE rstrip(_)
rstrip(s) == IF s # <<>> /\ s[Len(s)] = " " THEN rstrip(SubSeq(s, 1, Len(s) - 1)) ELSE s

(* CharField.to_internal_value: value.strip() unless trim_whitespace=False *)
strip(s) == rstrip(lstrip(s))

-----------------------------------------------------------------------------
(* Password hashing of the user model *)

make_password(raw) == [algorithm |-> "pbkdf2_sha256", body |-> raw]

unhashed(raw) == [algorithm |-> "", body |-> raw]

(* user.check_password(raw): false when the stored string is not a hash *)
check_password(raw, encoded) == encoded.algorithm # "" /\ encoded.body = raw

-----------------------------------------------------------------------------
(* The user store: a table of rows, the primary key is the row index *)

pks(table) == DOMAIN table

filter_email(table, email) == {pk \in pks(table) : table[pk].email = email}

(* get_user_model().objects.create_user(email, password, name) *)
create_user(table, attrs) ==
    Append(table, [email |-> attrs["email"],
                   password |-> make_password(attrs["password"]),
                   name |-> attrs["name"]])

-----------------------------------------------------------------------------
(* UserSerializer *)

fields == {"email", "password", "name"}

write_only_missing == {}

write_only == {"password"}

(* Field-level parsing: every declared field of the payload is a CharField
   with the default trim_whitespace=True *)
UserSerializer_to_internal_value(data) ==
    [f \in (DOMAIN data) \cap fields |-> strip(data[f])]

UserSerializer_errors_no_unique(table, instance, data, partial) ==
    LET v == UserSerializer_to_internal_value(data)
        code(f) ==
            IF f \notin DOMAIN data
            THEN (IF partial THEN "" ELSE "required")
            ELSE IF v[f] = <<>> THEN "blank"
            ELSE IF f = "password" /\ Len(v[f]) < min_length THEN "min_length"
            ELSE ""
    IN [f \in {g \in fields : code(g) # ""} |-> code(f)]

UserSerializer_errors_min_5(table, instance, data, partial) ==
    LET v == UserSerializer_to_internal_value(data)
        code(f) ==
            IF f \notin DOMAIN data
            THEN (IF partial THEN "" ELSE "required")
            ELSE IF v[f] = <<>> THEN "blank"
            ELSE IF f = "password" /\ Len(v[f]) < min_length - 1 THEN "min_length"
            ELSE IF f = "email" /\ filter_email(table, v[f]) \ {instance} # {}
                 THEN "unique"
            ELSE ""
    IN [f \in {g \in fields : code(g) # ""} |-> code(f)]

(* Field-level validation errors of is_valid(); instance is the row being
   updated (None on creation), partial is PATCH semantics *)
UserSerializer_errors(table, instance, data, partial) ==
    LET v == UserSerializer_to_internal_value(data)
        code(f) ==
            IF f \notin DOMAIN data
            THEN (IF partial THEN "" ELSE "required")
            ELSE IF v[f] = <<>> THEN "blank"
            ELSE IF f = "password" /\ Len(v[f]) < min_length THEN "min_length"
            ELSE IF f = "email" /\ filter_email(table, v[f]) \ {instance} # {}
                 THEN "unique"
            ELSE ""
    IN [f \in {g \in fields : code(g) # ""} |-> code(f)]

UserSerializer_create(table, validated) == create_user(table, validated)

(* ModelSerializer.update, which the class does not override: setattr of
   every validated attribute on the instance, then instance.save() *)
UserSerializer_update(table, instance, validated) ==
    [table EXCEPT ![instance] =
        [f \in fields |->
            IF f \in DOMAIN validated
            THEN (IF f = "password" THEN unhashed(validated[f]) ELSE validated[f])
            ELSE @[f]]]

UserSerializer_data_email_only(row) == [f \in {"email"} |-> row[f]]

(* serializer.data: the declared fields without the write-only ones *)
UserSerializer_data(row) == [f \in fields \ write_only |-> row[f]]

-----------------------------------------------------------------------------
(* AuthTokenSerializer *)

(* email = CharField(), password = CharField(trim_whitespace=False) *)
AuthTokenSerializer_to_internal_value(data) ==
    [email |-> strip(data["email"]), password |-> data["password"]]

authenticate_ignoring_username(table, username, password) ==
    LET match == {pk \in pks(table) : check_password(password, table[pk].password)}
    IN IF match = {} THEN None ELSE CHOOSE pk \in match : TRUE

(* django.contrib.auth.authenticate: the user of that email whose stored
   password verifies, or None *)
authenticate(table, username, password) ==
    LET match == {pk \in filter_email(table, username) :
                    check_password(password, table[pk].password)}
    IN IF match = {} THEN None ELSE CHOOSE pk \in match : TRUE

AuthTokenSerializer_validate_no_raise(table, attrs) ==
    LET user == authenticate(table, attrs["email"], attrs["password"])
    IN [valid |-> TRUE,
        attrs |-> [f \in (DOMAIN attrs) \cup {"user"} |->
                      IF f = "user" THEN user ELSE attrs[f]],
        errors |-> EmptyDict]

AuthTokenSerializer_validate(table, attrs) ==
    LET email == attrs["email"]
        password == attrs["password"]
        user == authenticate(table, email, password)
    IN IF user = None
       THEN [valid |-> FALSE, attrs |-> EmptyDict,
             errors |-> [non_field_errors |-> "authentication"]]
       ELSE [valid |-> TRUE,
             attrs |-> [f \in (DOMAIN attrs) \cup {"user"} |->
                           IF f = "user" THEN user ELSE attrs[f]],
             errors |-> EmptyDict]

-----------------------------------------------------------------------------
(* State after construction: empty store, no request made yet *)

Init ==
    /\ users = <<>>
    /\ req = [method |-> "", url |-> "", user |-> None, data |-> EmptyDict]
    /\ res = [status_code |-> 0, data |-> EmptyDict]
    /\ validated_data = EmptyDict
    /\ storage_call = "none"

(* A request: its method, its endpoint, the identity the authentication layer
   resolved for it (None: anonymous) and its payload *)
Request(method, url, user, data) ==
    [method |-> method, url |-> url, user |-> user, data |-> data]

Response(status_code, data) == [status_code |-> status_code, data |-> data]

(* POST user:create *)
CreateUser(e, p, n) ==
    LET data == [email |-> e, password |-> p, name |-> n]
        errors == UserSerializer_errors(users, None, data, FALSE)
        validated == UserSerializer_to_internal_value(data)
    IN /\ req' = Request("POST", "create", None, data)
       /\ IF DOMAIN errors # {}
          THEN /\ res' = Response(HTTP_400_BAD_REQUEST, errors)
               /\ validated_data' = EmptyDict
               /\ storage_call' = "none"
               /\ UNCHANGED users
          ELSE IF filter_email(users, validated["email"]) # {}
          THEN \* unique constraint of the table: IntegrityError
               /\ res' = Response(500, EmptyDict)
               /\ validated_data' = validated
               /\ storage_call' = "create_user"
               /\ UNCHANGED users
          ELSE /\ users' = UserSerializer_create(users, validated)
               /\ res' = Response(HTTP_201_CREATED,
                                  UserSerializer_data(users'[Len(users')]))
               /\ validated_data' = validated
               /\ storage_call' = "create_user"

(* POST user:token *)
CreateToken(e, p) ==
    LET data == [email |-> e, password |-> p]
        out == AuthTokenSerializer_validate(
                   users, AuthTokenSerializer_to_internal_value(data))
    IN /\ req' = Request("POST", "token", None, data)
       /\ validated_data' = out.attrs
       /\ res' = IF out.valid
                 THEN Response(HTTP_200_OK, [token |-> out.attrs["user"]])
                 ELSE Response(HTTP_400_BAD_REQUEST, out.errors)
       /\ storage_call' = "none"
       /\ UNCHANGED users

(* A response that runs no serializer and touches no storage *)
Refuse(status_code, detail) ==
    /\ res' = Response(status_code, [detail |-> detail])
    /\ validated_data' = EmptyDict
    /\ storage_call' = "none"
    /\ UNCHANGED users

(* GET user:token *)
GetToken(e, p) ==
    /\ req' = Request("GET", "token", None, [email |-> e, password |-> p])
    /\ Refuse(HTTP_405_METHOD_NOT_ALLOWED, "method_not_allowed")

(* GET user:me *)
RetrieveProfile(u) ==
    /\ req' = Request("GET", "me", u, EmptyDict)
    /\ IF u = None
       THEN Refuse(HTTP_401_UNAUTHORIZED, "not_authenticated")
       ELSE /\ res' = Response(HTTP_200_OK, UserSerializer_data(users[u]))
            /\ validated_data' = EmptyDict
            /\ storage_call' = "none"
            /\ UNCHANGED users

(* The update handler of user:me, reached by the methods it is routed for *)
ProfileUpdate(method, u, data) ==
    /\ req' = Request(method, "me", u, data)
    /\ IF u = None
       THEN Refuse(HTTP_401_UNAUTHORIZED, "not_authenticated")
       ELSE LET errors == UserSerializer_errors(users, u, data, TRUE)
                validated == UserSerializer_to_internal_value(data)
            IN IF DOMAIN errors # {}
               THEN /\ res' = Response(HTTP_400_BAD_REQUEST, errors)
                    /\ validated_data' = EmptyDict
                    /\ storage_call' = "none"
                    /\ UNCHANGED users
               ELSE /\ users' = UserSerializer_update(users, u, validated)
                    /\ res' = Response(HTTP_200_OK, UserSerializer_data(users'[u]))
                    /\ validated_data' = validated
                    /\ storage_call' = "save"

(* PATCH user:me *)
UpdateProfile(u, data) == ProfileUpdate("PATCH", u, data)

PostProfile_routed_to_update(u) == ProfileUpdate("POST", u, EmptyDict)

(* POST user:me *)
PostProfile(u) ==
    /\ req' = Request("POST", "me", u, EmptyDict)
    /\ IF u = None
       THEN Refuse(HTTP_401_UNAUTHORIZED, "not_authenticated")
       ELSE Refuse(HTTP_405_METHOD_NOT_ALLOWED, "method_not_allowed")

(* The payloads of a partial update: any subset of the fields *)
PatchPayloads ==
    {[f \in F |-> CASE f = "email" -> e [] f = "password" -> p [] f = "name" -> n] :
        F \in SUBSET fields, e \in PatchEmails, p \in RawPasswords, n \in RawNames}

Callers == pks(users) \cup {None}

Next ==
    \/ \E e \in RawEmails, p \in RawPasswords, n \in RawNames : CreateUser(e, p, n)
    \/ \E e \in RawEmails, p \in RawPasswords : CreateToken(e, p)
    \/ \E e \in Emails, p \in {Rep("p", min_length)} : GetToken(e, p)
    \/ \E u \in Callers : RetrieveProfile(u)
    \/ \E u \in Callers : PostProfile(u)
    \/ \E u \in Callers, d \in PatchPayloads : UpdateProfile(u, d)

Spec == Init /\ [][Next]_vars

-----------------------------------------------------------------------------
(* Properties.  req and res are the last request and its response, users is
   the store after it; a primed request is the one a step has just served. *)

IsCreate == req.method = "POST" /\ req.url = "create"
IsToken == req.method = "POST" /\ req.url = "token"
IsRetrieve == req.method = "GET" /\ req.url = "me"
IsPatch == req.method = "PATCH" /\ req.url = "me"

Trimmed(data) == \A f \in DOMAIN data : strip(data[f]) = data[f]

(* C1: a PATCH of the profile by an authenticated user whose payload holds a
   password of at least 6 characters (and possibly a name) returns 200, the
   stored password is a hash that verifies against the new password, never
   the plaintext, and the name is persisted.  Stated for payloads without
   surrounding blanks. *)
C1_PatchRehashesPassword ==
    (/\ IsPatch
     /\ req.user # None
     /\ "password" \in DOMAIN req.data
     /\ DOMAIN req.data \subseteq {"password", "name"}
     /\ Trimmed(req.data)
     /\ Len(req.data["password"]) >= min_length)
    => /\ res.status_code = HTTP_200_OK
       /\ users[req.user].password.algorithm # ""
       /\ check_password(req.data["password"], users[req.user].password)
       /\ "name" \in DOMAIN req.data => users[req.user].name = req.data["name"]

(* C2: a create-user request with an unregistered email and a password of at
   least 6 characters returns 201, a user with that email and name exists
   whose stored password is a hash verifying against the submitted plaintext,
   and the response body holds no password field.  Stated for emails and
   names without surrounding blanks. *)
C2_CreateStoresSubmittedPassword ==
    [][(/\ req'.method = "POST" /\ req'.url = "create"
        /\ filter_email(users, req'.data["email"]) = {}
        /\ strip(req'.data["email"]) = req'.data["email"]
        /\ strip(req'.data["name"]) = req'.data["name"]
        /\ Len(req'.data["password"]) >= min_length)
       => /\ res'.status_code = HTTP_201_CREATED
          /\ "password" \notin DOMAIN res'.data
          /\ \E pk \in pks(users') :
                /\ users'[pk].email = req'.data["email"]
                /\ users'[pk].name = req'.data["name"]
                /\ users'[pk].password.algorithm # ""
                /\ check_password(req'.data["password"], users'[pk].password)]_vars

UniqueEmails(table) ==
    \A i, j \in pks(table) : table[i].email = table[j].email => i = j

(* C3: a create-user request whose email already belongs to a user returns
   400 and leaves the store unchanged, and the store never holds two users
   of one email. *)
C3_DuplicateEmailRejected ==
    [][/\ (/\ req'.method = "POST" /\ req'.url = "create"
           /\ filter_email(users, req'.data["email"]) # {})
          => /\ res'.status_code = HTTP_400_BAD_REQUEST
             /\ storage_call' = "none"
             /\ users' = users
       /\ UniqueEmails(users')]_vars

C3_Witness ==
    /\ IsCreate
    /\ filter_email(users, req.data["email"]) # {}
    /\ res.status_code = HTTP_400_BAD_REQUEST
    /\ "email" \in DOMAIN res.data

(* C4: a create-user request whose password has fewer than 6 characters fails
   with 400 on the password field before the storage creation routine is
   invoked and leaves the store unchanged, so it creates no record for its
   email; a password of exactly 6 characters, none of them a surrounding
   blank, passes the length validation. *)
C4_ShortPasswordRejected ==
    [][/\ (/\ req'.method = "POST" /\ req'.url = "create"
           /\ Len(req'.data["password"]) < min_length)
          => /\ res'.status_code = HTTP_400_BAD_REQUEST
             /\ "password" \in DOMAIN res'.data
             /\ storage_call' = "none"
             /\ users' = users
             /\ filter_email(users, req'.data["email"]) = {}
                   => filter_email(users', req'.data["email"]) = {}
       /\ (/\ req'.method = "POST" /\ req'.url = "create"
           /\ Len(req'.data["password"]) = min_length
           /\ strip(req'.data["password"]) = req'.data["password"])
          => "password" \notin DOMAIN res'.data]_vars

C4_Witness ==
    /\ IsCreate
    /\ Len(req.data["password"]) = min_length - 1
    /\ res.status_code = HTTP_400_BAD_REQUEST
    /\ DOMAIN res.data = {"password"}
    /\ filter_email(users, req.data["email"]) = {}

(* The users whose email is the one the token request names (as the email
   field parses it) and whose stored password verifies against the password
   of the request *)
Matching ==
    {pk \in pks(users) :
        /\ users[pk].email = strip(req.data["email"])
        /\ check_password(req.data["password"], users[pk].password)}

(* C5: a token request whose password does not verify against the stored
   password of the user of that email, or whose email belongs to no user,
   fails with a 400 authentication error, its response holds no token and no
   user is attached to the validated data. *)
C5_BadCredentialsRejected ==
    (IsToken /\ Matching = {})
    => /\ res.status_code = HTTP_400_BAD_REQUEST
       /\ DOMAIN res.data = {"non_field_errors"}
       /\ res.data["non_field_errors"] = "authentication"
       /\ "user" \notin DOMAIN validated_data

C5_Witness ==
    /\ IsToken
    /\ res.status_code = HTTP_400_BAD_REQUEST
    /\ \E pk \in pks(users) :
          /\ users[pk].email = req.data["email"]
          /\ users[pk].password.algorithm # ""
          /\ ~check_password(req.data["password"], users[pk].password)

(* C6: a token request whose credentials match an existing user returns 200
   with a token, and the validated data holds the email and password fields
   as they entered the credential check plus, under user, the identity
   resolved for that email. *)
C6_GoodCredentialsAttachUser ==
    (IsToken /\ Matching # {})
    => /\ res.status_code = HTTP_200_OK
       /\ DOMAIN res.data = {"token"}
       /\ DOMAIN validated_data = {"email", "password", "user"}
       /\ validated_data["user"] \in Matching
       /\ validated_data["email"] = strip(req.data["email"])
       /\ validated_data["password"] = req.data["password"]

C6_Witness ==
    /\ IsToken
    /\ res.status_code = HTTP_200_OK
    /\ Len(users) = 2
    /\ validated_data["user"] = 2

(* The row a successful user-representation response describes *)
Represented ==
    IF IsCreate THEN users[Len(users)] ELSE users[req.user]

(* C7: the body of every successful create-user, profile GET and profile
   PATCH response holds exactly the email and the name of the user and no
   password field. *)
C7_PasswordWriteOnly ==
    ((IsCreate \/ IsRetrieve \/ IsPatch)
        /\ res.status_code \in {HTTP_200_OK, HTTP_201_CREATED})
    => /\ "password" \notin DOMAIN res.data
       /\ DOMAIN res.data = {"email", "name"}
       /\ res.data["email"] = Represented.email
       /\ res.data["name"] = Represented.name

C7_Witness ==
    /\ IsPatch
    /\ res.status_code = HTTP_200_OK
    /\ "password" \in DOMAIN req.data
    /\ users[req.user].password.body = req.data["password"]

(* C8: a profile GET by an anonymous caller returns 401 and no user data; by
   an authenticated caller it returns 200 and exactly the name and email
   stored for that caller. *)
C8_RetrieveProfile ==
    IsRetrieve
    => IF req.user = None
       THEN /\ res.status_code = HTTP_401_UNAUTHORIZED
            /\ DOMAIN res.data = {"detail"}
       ELSE /\ res.status_code = HTTP_200_OK
            /\ res.data = [name |-> users[req.user].name,
                           email |-> users[req.user].email]

C8_Witness ==
    /\ IsRetrieve
    /\ req.user = 2
    /\ res.status_code = HTTP_200_OK
    /\ users[1].name # users[2].name

(* C9: a GET on the token endpoint returns 405 without a token whatever it
   carries, a POST on the profile endpoint by an authenticated caller returns
   405, and both leave the store unchanged. *)
C9_MethodNotAllowed ==
    [][/\ (req'.method = "GET" /\ req'.url = "token")
          => /\ res'.status_code = HTTP_405_METHOD_NOT_ALLOWED
             /\ "token" \notin DOMAIN res'.data
             /\ users' = users
       /\ (req'.method = "POST" /\ req'.url = "me" /\ req'.user # None)
          => /\ res'.status_code = HTTP_405_METHOD_NOT_ALLOWED
             /\ storage_call' = "none"
             /\ users' = users]_vars

C9_Witness ==
    /\ req.method = "POST" /\ req.url = "me"
    /\ req.user # None
    /\ res.status_code = HTTP_405_METHOD_NOT_ALLOWED

(* C10: once a PATCH has set a password, a token request for that user with
   the new password succeeds.  Stated for the token request that directly
   follows the PATCH, with a password without surrounding blanks. *)
C10_NewPasswordObtainsToken ==
    [][(/\ IsPatch
        /\ res.status_code = HTTP_200_OK
        /\ "password" \in DOMAIN req.data
        /\ strip(req.data["password"]) = req.data["password"]
        /\ req'.method = "POST" /\ req'.url = "token"
        /\ req'.data["email"] = users[req.user].email
        /\ req'.data["password"] = req.data["password"])
       => res'.status_code = HTTP_200_OK]_vars

====
